---- MODULE Spec2Model ----
(***************************************************************************)
(* A model of src/common/js/pub.js: create_manifest(config), which reads   *)
(* a respec configuration and the rendered document, builds a publication  *)
(* manifest and appends it, serialized, to the document head.              *)
(*                                                                         *)
(* Strings are TLA+ strings (Len, SubSeq and \o act on them as on          *)
(* sequences of characters).  A JavaScript object is a function from       *)
(* property names to values; an absent property is a name outside its      *)
(* DOMAIN.  A DOM element is a function holding its tag under "tag", its   *)
(* text under "text" (script elements created by the program) and every    *)
(* attribute under the attribute's name.  The manifest's "@context"        *)
(* property is written context.                                            *)
(***************************************************************************)
EXTENDS Integers, Sequences, FiniteSets, TLC

VARIABLES
    config,       \* the respec configuration object passed to create_manifest
    document,     \* the live document tree: [head, body], sequences of elements
    docBefore,    \* the document as it was when the last invocation started
    manifest,     \* <<the manifest object of the last completed invocation>>
    accumulated,  \* manifest.resources of the last invocation before line 304
    scanned,      \* per scanned element of the last invocation: element, entry
    outcome,      \* "none", "completed" or "aborted": how the last invocation ended
    runs          \* number of invocations so far

vars == <<config, document, docBefore, manifest, accumulated, scanned, outcome, runs>>

(***************************************************************************)
(* Bounds of the model.                                                    *)
(***************************************************************************)
MaxElems   == 2    \* scanned elements (object, img, a, script) in the body
MaxPersons == 1    \* entries of an editors / authors / creators list
MaxRuns    == 2    \* consecutive invocations of create_manifest

(***************************************************************************)
(* JavaScript values.                                                      *)
(***************************************************************************)
Null      == "<null>"        \* null, as returned by getAttribute
Undefined == "<undefined>"   \* undefined, the value of an absent property

\* if( v ), v || w on attribute values: null, undefined and "" are falsy
Truthy(v) == v # Null /\ v # Undefined /\ v # ""

\* obj[k], obj.k
Get(obj, k) == IF k \in DOMAIN obj THEN obj[k] ELSE Undefined

\* obj.k = v
WithField(obj, k, v) == [x \in DOMAIN obj \cup {k} |-> IF x = k THEN v ELSE obj[x]]

startsWith(s, p) == Len(s) >= Len(p) /\ SubSeq(s, 1, Len(p)) = p

endsWith(s, p) == Len(s) >= Len(p) /\ SubSeq(s, Len(s) - Len(p) + 1, Len(s)) = p

LowerLetters == "abcdefghijklmnopqrstuvwxyz"

UpperLetters == "ABCDEFGHIJKLMNOPQRSTUVWXYZ"

\* the case mappings of the letters a-z (the statuses are ASCII)
UpperOf ==
    [c \in {SubSeq(LowerLetters, i, i) : i \in 1..26} |->
        LET i == CHOOSE j \in 1..26 : SubSeq(LowerLetters, j, j) = c
        IN SubSeq(UpperLetters, i, i)]

LowerOf ==
    [c \in {SubSeq(UpperLetters, i, i) : i \in 1..26} |->
        LET i == CHOOSE j \in 1..26 : SubSeq(UpperLetters, j, j) = c
        IN SubSeq(LowerLetters, i, i)]

UpperChar(c) == IF c \in DOMAIN UpperOf THEN UpperOf[c] ELSE c

LowerChar(c) == IF c \in DOMAIN LowerOf THEN LowerOf[c] ELSE c

RECURSIVE toUpperCase(_)
toUpperCase(s) ==
    IF s = "" THEN ""
    ELSE UpperChar(SubSeq(s, 1, 1)) \o toUpperCase(SubSeq(s, 2, Len(s)))

RECURSIVE toLowerCase(_)
toLowerCase(s) ==
    IF s = "" THEN ""
    ELSE LowerChar(SubSeq(s, 1, 1)) \o toLowerCase(SubSeq(s, 2, Len(s)))

(***************************************************************************)
(* The helpers of create_manifest.                                         *)
(***************************************************************************)
\* is_relative without the mailto: test
is_relative_no_mailto(url) ==
    IF \/ SubSeq(url, 1, 1) = "#"
       \/ startsWith(url, "http://")
       \/ startsWith(url, "https://")
    THEN FALSE ELSE TRUE

is_relative(url) ==
    IF \/ SubSeq(url, 1, 1) = "#"
       \/ startsWith(url, "http://")
       \/ startsWith(url, "https://")
       \/ startsWith(url, "mailto:")
    THEN FALSE ELSE TRUE

image_type(img) ==
    IF endsWith(img, ".gif") THEN "image/gif"
    ELSE IF endsWith(img, ".png") THEN "image/png"
    ELSE IF endsWith(img, ".bmp") THEN "image/bmp"
    ELSE IF endsWith(img, ".jpg") \/ endsWith(img, ".jpeg") THEN "image/jpeg"
    ELSE IF endsWith(img, ".svg") THEN "image/svg+xml"
    ELSE IF endsWith(img, ".pdf") THEN "application/pdf"
    ELSE Null

\* uniq that remembers only the url of the entry before
uniq_adjacent(arr) ==
    LET kept == SelectSeq([i \in 1..Len(arr) |-> i],
                    LAMBDA i : i = 1 \/ arr[i - 1].url # arr[i].url)
    IN [k \in 1..Len(kept) |-> arr[kept[k]]]

\* uniq that keeps the last entry of each url instead of the first
uniq_last(arr) ==
    LET kept == SelectSeq([i \in 1..Len(arr) |-> i],
                    LAMBDA i : \A j \in (i + 1)..Len(arr) : arr[j].url # arr[i].url)
    IN [k \in 1..Len(kept) |-> arr[kept[k]]]

\* arr.filter with the buffer of urls already seen: entry i is kept iff its
\* url was pushed by no earlier entry
uniq(arr) ==
    LET RECURSIVE filter(_, _)
        filter(i, buffer) ==
            IF i > Len(arr) THEN <<>>
            ELSE LET key == arr[i].url IN
                 IF key \in buffer
                 THEN filter(i + 1, buffer)
                 ELSE <<arr[i]>> \o filter(i + 1, buffer \cup {key})
    IN filter(1, {})

person_keys_mapping ==
    [editors |-> "editor", authors |-> "author", creators |-> "creator"]

\* Object.keys(person_keys_mapping), in insertion order
person_keys == <<"editors", "authors", "creators">>

MANIFEST_ID == "pub_manifest"

(***************************************************************************)
(* The document tree.  document.head and document.body list the elements   *)
(* of the head and of the body in document order; every selector the       *)
(* program uses is a type selector with at most an id or a class.          *)
(***************************************************************************)
getAttribute(element, name) ==
    IF name \in DOMAIN element \ {"tag", "text"} THEN element[name] ELSE Null

setAttribute(element, name, value) == WithField(element, name, value)

\* the whitespace-separated tokens of a class attribute
ClassTokens(s) ==
    LET RECURSIVE split(_, _)
        split(rest, cur) ==
            IF rest = "" THEN (IF cur = "" THEN {} ELSE {cur})
            ELSE LET c == SubSeq(rest, 1, 1)
                     r == SubSeq(rest, 2, Len(rest))
                 IN IF c = " "
                    THEN (IF cur = "" THEN {} ELSE {cur}) \cup split(r, "")
                    ELSE split(r, cur \o c)
    IN IF s = Null THEN {} ELSE split(s, "")

\* selectors: [tag], [tag, id] ("nav#toc") or [tag, class] ("a.u-url")
Matches(element, sel) ==
    /\ element.tag = sel.tag
    /\ "id" \in DOMAIN sel => getAttribute(element, "id") = sel.id
    /\ "class" \in DOMAIN sel => sel.class \in ClassTokens(getAttribute(element, "class"))

Elements(doc) == doc.head \o doc.body

\* document.querySelectorAll(sel): the matching elements in document order
querySelectorAll(doc, sel) == SelectSeq(Elements(doc), LAMBDA e : Matches(e, sel))

\* document.querySelector(sel): the first matching element, <<>> standing for null
querySelector(doc, sel) ==
    LET all == querySelectorAll(doc, sel)
    IN IF all = <<>> THEN <<>> ELSE <<all[1]>>

SEL_TOC       == [tag |-> "nav", id |-> "toc"]
SEL_URL       == [tag |-> "a", class |-> "u-url"]
SEL_PUBLISHED == [tag |-> "time", class |-> "dt-published"]
SEL_ORCID     == [tag |-> "span", class |-> "orcid"]

\* lines 63-66: role="doc-toc" on the first nav#toc of the document
MarkToc(doc) ==
    LET mark(seq) ==
            [i \in DOMAIN seq |->
                IF /\ Matches(seq[i], SEL_TOC)
                   /\ \A j \in 1..(i - 1) : ~Matches(seq[j], SEL_TOC)
                THEN setAttribute(seq[i], "role", "doc-toc")
                ELSE seq[i]]
    IN IF querySelector(doc, SEL_TOC) = <<>> THEN doc
       ELSE IF \E i \in DOMAIN doc.head : Matches(doc.head[i], SEL_TOC)
            THEN [doc EXCEPT !.head = mark(doc.head)]
            ELSE [doc EXCEPT !.body = mark(doc.body)]

(***************************************************************************)
(* The manifest.                                                           *)
(***************************************************************************)
W3C_LOGO ==
    [type |-> "LinkedResource",
     url |-> "https://www.w3.org/StyleSheets/TR/2016/logos/W3C",
     encodingFormat |-> "image/svg+xml",
     description |-> "W3C Logo"]

BASE_CSS ==
    [type |-> "LinkedResource",
     url |-> "https://www.w3.org/StyleSheets/TR/2016/base.css",
     rel |-> "stylesheet",
     encodingFormat |-> "text/css",
     description |-> "Generic CSS file for W3C TR documents"]

\* lines 71-106
StaticManifest ==
    [context |-> <<"https://schema.org", "https://www.w3.org/ns/pub-context">>,
     type |-> "TechArticle",
     accessMode |-> <<"textual", "diagramOnVisual">>,
     accessModeSufficient |-> <<"textual">>,
     resources |-> <<W3C_LOGO, BASE_CSS>>,
     links |-> <<
        [type |-> "LinkedResource",
         url |-> "https://www.w3.org/Consortium/Legal/privacy-statement-20140324",
         encodingFormat |-> "text/html",
         rel |-> "privacy-policy"],
        [type |-> "LinkedResource",
         url |-> "https://www.w3.org/Consortium/Legal/2015/copyright-software-and-document",
         encodingFormat |-> "text/html",
         rel |-> "license describedby"],
        [type |-> "LinkedResource",
         url |-> "http://www.w3.org/Consortium/Legal/ipr-notice#Copyright",
         encodingFormat |-> "text/html",
         rel |-> "copyright"] >>]

\* Person that takes the affiliation's url from the person's url
Person_url_for_company(person) ==
    LET r1  == [type |-> "Person", name |-> Get(person, "name")]
        r2  == IF Get(person, "url") # Undefined
               THEN WithField(r1, "id", person.url) ELSE r1
        a1  == [type |-> "Organization", name |-> Get(person, "company")]
        a2  == IF Get(person, "url") # Undefined
               THEN WithField(a1, "url", person.url) ELSE a1
    IN WithField(r2, "affiliation", a2)

\* lines 125-134: the callback of config[key].map
Person(person) ==
    LET r1  == [type |-> "Person", name |-> Get(person, "name")]
        r2  == IF Get(person, "url") # Undefined
               THEN WithField(r1, "id", person.url) ELSE r1
        a1  == [type |-> "Organization", name |-> Get(person, "company")]
        a2  == IF Get(person, "companyURL") # Undefined
               THEN WithField(a1, "url", person.companyURL) ELSE a1
    IN WithField(r2, "affiliation", a2)

\* lines 121-137
AddPersons(m, cfg) ==
    LET RECURSIVE forEach(_, _)
        forEach(i, mm) ==
            IF i > Len(person_keys) THEN mm
            ELSE LET key == person_keys[i] IN
                 IF key \in DOMAIN cfg
                 THEN forEach(i + 1,
                        WithField(mm, person_keys_mapping[key],
                                  [j \in 1..Len(cfg[key]) |-> Person(cfg[key][j])]))
                 ELSE forEach(i + 1, mm)
    IN forEach(1, m)

\* StatusFiles that switches on config.specStatus as written
StatusFiles_case_sensitive(specStatus) ==
    LET status == specStatus
        start  == [styleFile |-> "W3C-", logoFile |-> Undefined,
                   logoFormat |-> "image/svg+xml", watermark |-> Undefined]
    IN IF status \in {"CG-DRAFT", "CG-FINAL", "BG-DRAFT", "BG-FINAL"}
       THEN [start EXCEPT !.styleFile = toLowerCase(specStatus),
                          !.logoFile = "back-" \o toLowerCase(specStatus) \o ".png",
                          !.logoFormat = "image/png"]
       ELSE IF status \in {"FPWD", "LC", "WD-NOTE", "LC-NOTE"}
       THEN [start EXCEPT !.styleFile = @ \o "WD", !.logoFile = "WD"]
       ELSE IF status \in {"WG-NOTE", "FPWD-NOTE"}
       THEN [start EXCEPT !.styleFile = @ \o "WG-NOTE", !.logoFile = "WG-Note"]
       ELSE IF status = "UNOFFICIAL"
       THEN [start EXCEPT !.styleFile = @ \o "UD", !.logoFile = "UD.png",
                          !.logoFormat = "image/png",
                          !.watermark = "UD-watermark.png"]
       ELSE IF status \in {"FINDING", "FINDING-DRAFT", "BASE"}
       THEN [start EXCEPT !.styleFile = Undefined]
       ELSE [start EXCEPT !.styleFile = @ \o toUpperCase(status),
                          !.logoFile = toUpperCase(status)]

\* lines 140-181: the switch on config.specStatus.toUpperCase()
StatusFiles(specStatus) ==
    LET status == toUpperCase(specStatus)
        start  == [styleFile |-> "W3C-", logoFile |-> Undefined,
                   logoFormat |-> "image/svg+xml", watermark |-> Undefined]
    IN IF status \in {"CG-DRAFT", "CG-FINAL", "BG-DRAFT", "BG-FINAL"}
       THEN [start EXCEPT !.styleFile = toLowerCase(specStatus),
                          !.logoFile = "back-" \o toLowerCase(specStatus) \o ".png",
                          !.logoFormat = "image/png"]
       ELSE IF status \in {"FPWD", "LC", "WD-NOTE", "LC-NOTE"}
       THEN [start EXCEPT !.styleFile = @ \o "WD", !.logoFile = "WD"]
       ELSE IF status \in {"WG-NOTE", "FPWD-NOTE"}
       THEN [start EXCEPT !.styleFile = @ \o "WG-NOTE", !.logoFile = "WG-Note"]
       ELSE IF status = "UNOFFICIAL"
       THEN [start EXCEPT !.styleFile = @ \o "UD", !.logoFile = "UD.png",
                          !.logoFormat = "image/png",
                          !.watermark = "UD-watermark.png"]
       ELSE IF status \in {"FINDING", "FINDING-DRAFT", "BASE"}
       THEN [start EXCEPT !.styleFile = Undefined]
       ELSE [start EXCEPT !.styleFile = @ \o status, !.logoFile = status]

\* lines 183-209: the resources pushed for the status
StatusResources(specStatus) ==
    LET f == StatusFiles(specStatus) IN
    (IF f.styleFile # Undefined
     THEN << [type |-> "LinkedResource",
              url |-> "https://www.w3.org/StyleSheets/TR/2016/" \o f.styleFile,
              rel |-> "stylesheet",
              encodingFormat |-> "text/css",
              description |-> "CSS file depending on the status of the document"] >>
     ELSE <<>>)
    \o
    (IF f.logoFile # Undefined
     THEN << [type |-> "LinkedResource",
              url |-> "https://www.w3.org/StyleSheets/TR/2016/logos/" \o f.logoFile,
              encodingFormat |-> f.logoFormat,
              description |-> "Sidebar logo reflecting the status of the document"] >>
     ELSE <<>>)
    \o
    (IF f.watermark # Undefined
     THEN << [type |-> "LinkedResource",
              url |-> "https://www.w3.org/StyleSheets/TR/2016/logos/" \o f.watermark,
              encodingFormat |-> "image/png",
              description |-> "Background watermark reflecting the status of the document"] >>
     ELSE <<>>)

ORCID_LOGO ==
    [type |-> "LinkedResource",
     url |-> "images/orcid.gif",
     encodingFormat |-> "image/gif",
     description |-> "ORCID logo"]

\* lines 212-219
OrcidResources(doc) ==
    IF querySelector(doc, SEL_ORCID) # <<>> THEN <<ORCID_LOGO>> ELSE <<>>

(***************************************************************************)
(* The scan of the document, lines 229-302.  Each ...Entry is the callback *)
(* of one forEach: the entries it pushes to manifest.resources for one     *)
(* element (none or one).                                                  *)
(***************************************************************************)
\* a || b
Or(a, b) == IF Truthy(a) THEN a ELSE b

\* lines 229-242
ObjectEntry(element) ==
    LET href   == getAttribute(element, "data")
        retval == [type |-> "LinkedResource", url |-> href]
        type   == Or(getAttribute(element, "type"), image_type(href))
    IN IF Truthy(href) /\ is_relative(href)
       THEN << IF Truthy(type) THEN WithField(retval, "encodingFormat", type)
               ELSE retval >>
       ELSE <<>>

\* lines 243-260
ImgEntry(element) ==
    LET href   == getAttribute(element, "src")
        retval == [type |-> "LinkedResource", url |-> href]
        type   == image_type(href)
        r1     == IF Truthy(type) THEN WithField(retval, "encodingFormat", type)
                  ELSE retval
        alt    == getAttribute(element, "alt")
    IN IF Truthy(href) /\ is_relative(href)
       THEN << IF Truthy(alt) THEN WithField(r1, "description", alt) ELSE r1 >>
       ELSE <<>>

\* AEntry that sniffs the extension before it reads the type attribute
AEntry_sniff_first(element) ==
    LET href   == getAttribute(element, "href")
        retval == [type |-> "LinkedResource", url |-> href]
        type   == Or(image_type(href), getAttribute(element, "type"))
        r1     == IF Truthy(type) THEN WithField(retval, "encodingFormat", type)
                  ELSE retval
        rel    == getAttribute(element, "rel")
        r2     == IF Truthy(rel) THEN WithField(r1, "rel", rel) ELSE r1
        descr  == getAttribute(element, "title")
    IN IF Truthy(href) /\ is_relative(href)
       THEN << IF Truthy(descr) THEN WithField(r2, "description", descr) ELSE r2 >>
       ELSE <<>>

\* lines 261-282
AEntry(element) ==
    LET href   == getAttribute(element, "href")
        retval == [type |-> "LinkedResource", url |-> href]
        type   == Or(getAttribute(element, "type"), image_type(href))
        r1     == IF Truthy(type) THEN WithField(retval, "encodingFormat", type)
                  ELSE retval
        rel    == getAttribute(element, "rel")
        r2     == IF Truthy(rel) THEN WithField(r1, "rel", rel) ELSE r1
        descr  == getAttribute(element, "title")
    IN IF Truthy(href) /\ is_relative(href)
       THEN << IF Truthy(descr) THEN WithField(r2, "description", descr) ELSE r2 >>
       ELSE <<>>

\* lines 283-302, the entry pushed at line 299
ScriptEntry(element) ==
    LET href   == getAttribute(element, "src")
        retval == [type |-> "LinkedResource", url |-> href]
    IN IF /\ getAttribute(element, "class") # "remove"
          /\ Truthy(href) /\ is_relative(href)
       THEN << IF endsWith(href, ".js")
               THEN WithField(retval, "encodingFormat", "application/Javascript")
               ELSE retval >>
       ELSE <<>>

\* ScriptManifest that reads the type attribute of scripts without a src too
ScriptManifest_any_script(m, element) ==
    LET href == getAttribute(element, "src")
        type == getAttribute(element, "type")
    IN IF /\ getAttribute(element, "class") # "remove"
          /\ ~(Truthy(href) /\ endsWith(href, ".js"))
          /\ Truthy(type)
       THEN WithField(m, "encodingFormat", type)
       ELSE m

\* lines 283-302, the assignment of line 296: the manifest object after the
\* callback has run on one script element
ScriptManifest(m, element) ==
    LET href == getAttribute(element, "src")
        type == getAttribute(element, "type")
    IN IF /\ getAttribute(element, "class") # "remove"
          /\ Truthy(href) /\ is_relative(href)
          /\ ~endsWith(href, ".js")
          /\ Truthy(type)
       THEN WithField(m, "encodingFormat", type)
       ELSE m

Entry(element) ==
    CASE element.tag = "object" -> ObjectEntry(element)
      [] element.tag = "img"    -> ImgEntry(element)
      [] element.tag = "a"      -> AEntry(element)
      [] element.tag = "script" -> ScriptEntry(element)

\* the elements the four querySelectorAll calls visit, in the order of the visits
ScanOrder(doc) ==
    querySelectorAll(doc, [tag |-> "object"]) \o querySelectorAll(doc, [tag |-> "img"])
    \o querySelectorAll(doc, [tag |-> "a"]) \o querySelectorAll(doc, [tag |-> "script"])

\* per visited element, the element and what its callback pushed
Scan(doc) ==
    LET order == ScanOrder(doc)
    IN [i \in 1..Len(order) |-> [element |-> order[i], pushed |-> Entry(order[i])]]

RECURSIVE Flatten(_)
Flatten(seqs) == IF seqs = <<>> THEN <<>> ELSE Head(seqs) \o Flatten(Tail(seqs))

\* manifest.resources when line 304 is reached
Accumulate(cfg, doc, scan) ==
    StaticManifest.resources \o StatusResources(cfg.specStatus) \o OrcidResources(doc)
    \o Flatten([i \in 1..Len(scan) |-> scan[i].pushed])

\* lines 71-304: the manifest object when line 304 has run, resources being
\* manifest.resources as line 304 finds it
BuildManifest(cfg, doc, resources) ==
    LET m1 == StaticManifest
              @@ [id |-> "https://www.w3.org/TR/" \o cfg.shortName \o "/",
                  url |-> getAttribute(querySelector(doc, SEL_URL)[1], "href"),
                  datePublished |->
                      getAttribute(querySelector(doc, SEL_PUBLISHED)[1], "datetime")]
        m2 == AddPersons(m1, cfg)
        scripts == querySelectorAll(doc, [tag |-> "script"])
        RECURSIVE forEach(_, _)
        forEach(i, m) ==
            IF i > Len(scripts) THEN m
            ELSE forEach(i + 1, ScriptManifest(m, scripts[i]))
        m3 == forEach(1, m2)
    IN [m3 EXCEPT !.resources = uniq(resources)]

\* JSON.stringify(manifest, null, 4), line 321.  The text is represented by the
\* JSON value it denotes: properties whose value is undefined are left out.
stringify(m) ==
    LET drop(obj) == [k \in {x \in DOMAIN obj : x # "name" \/ obj.name # Undefined}
                         |-> obj[k]]
        person(p) == [drop(p) EXCEPT !.affiliation = drop(p.affiliation)]
        persons(mm, key) ==
            IF key \in DOMAIN mm
            THEN [mm EXCEPT ![key] = [j \in 1..Len(mm[key]) |-> person(mm[key][j])]]
            ELSE mm
    IN persons(persons(persons(m, "editor"), "author"), "creator")

\* AppendManifest that appends the script before the link
AppendManifest_script_first(doc, m) ==
    LET link == [tag |-> "link", rel |-> "publication", href |-> "#" \o MANIFEST_ID]
        manifest_element ==
            [tag |-> "script", type |-> "application/ld+json", id |-> MANIFEST_ID,
             text |-> stringify(m)]
    IN [doc EXCEPT !.head = Append(Append(@, manifest_element), link)]

\* lines 309-322: the two elements appended to head
AppendManifest(doc, m) ==
    LET link == [tag |-> "link", rel |-> "publication", href |-> "#" \o MANIFEST_ID]
        manifest_element ==
            [tag |-> "script", type |-> "application/ld+json", id |-> MANIFEST_ID,
             text |-> stringify(m)]
    IN [doc EXCEPT !.head = Append(Append(@, link), manifest_element)]

\* lines 115 and 118 read an attribute of the element querySelector returned:
\* a TypeError when it returned null
Throws(doc) ==
    \/ querySelector(doc, SEL_URL) = <<>>
    \/ querySelector(doc, SEL_PUBLISHED) = <<>>

(***************************************************************************)
(* The inputs: configurations and rendered documents.                      *)
(***************************************************************************)
\* sequences over S of length at most n
SeqsUpTo(S, n) == UNION {[1..k -> S] : k \in 0..n}

\* every branch of the switch, and the status "unofficial" in several cases
Statuses == {"unofficial", "UNOFFICIAL", "Unofficial", "cg-draft", "FPWD",
             "wg-note", "base", "ED"}

Persons == {
    [name |-> "A", company |-> "C"],
    [name |-> "B", url |-> "https://b.example/", company |-> "C",
     companyURL |-> "https://c.example/"],
    [name |-> "D", url |-> "https://d.example/"] }

\* the optional people lists of a configuration: each key absent or a list
PeopleConfigs ==
    LET Lists == SeqsUpTo(Persons, MaxPersons)
        Opt(key) == {<<>>} \cup {<<key, l>> : l \in Lists}
        Put(cfg, o) == IF o = <<>> THEN cfg ELSE WithField(cfg, o[1], o[2])
    IN {Put(Put(Put([shortName |-> "pub-manifest"], e), a), c) :
            e \in Opt("editors"), a \in Opt("authors"), c \in Opt("creators")}

\* the elements the scan visits
ScanPool == {
    [tag |-> "object", data |-> "fig.svg", type |-> "image/x-fig"],
    [tag |-> "object", data |-> "chart.png"],
    [tag |-> "img", src |-> "pic.png", alt |-> "cap"],
    [tag |-> "img", src |-> "photo.jpeg", type |-> "image/webp"],
    [tag |-> "img", src |-> "images/orcid.gif"],
    [tag |-> "a", href |-> "#frag"],
    [tag |-> "a", href |-> "https://example.com/x"],
    [tag |-> "a", href |-> "mailto:a@example.org"],
    [tag |-> "a", href |-> "doc.pdf", rel |-> "alternate", title |-> "PDF"],
    [tag |-> "a", href |-> "pic.png", type |-> "text/html"],
    [tag |-> "a", href |-> "page.html", type |-> ""],
    [tag |-> "script", src |-> "a.js"],
    [tag |-> "script", src |-> "data.json", type |-> "application/json"],
    [tag |-> "script", class |-> "remove", src |-> "respec.js"] }

NAV_TOC == [tag |-> "nav", id |-> "toc"]

A_URL == [tag |-> "a", class |-> "u-url", href |-> "https://www.w3.org/TR/pub-manifest/"]

TIME_PUBLISHED == [tag |-> "time", class |-> "dt-published", datetime |-> "2019-01-01"]

SPAN_ORCID == [tag |-> "span", class |-> "p-author orcid"]

\* no nav#toc, one as the formatter writes it, one that carries a role already
TocVariants == {<<>>, <<NAV_TOC>>, <<WithField(NAV_TOC, "role", "navigation")>>}

OrcidVariants == {<<>>, <<SPAN_ORCID>>}

\* the head as the upstream formatter leaves it
InitialHead == <<[tag |-> "meta", charset |-> "utf-8"]>>

Document(body) == [head |-> InitialHead, body |-> body]

Config(specStatus) == [shortName |-> "pub-manifest", specStatus |-> specStatus]

\* The inputs are pairs <<config, document>>, in four families that each vary
\* what one part of create_manifest reads.
\* the scan: up to MaxElems scanned elements, under a status that adds
\* resources and one that adds none
ScanInputs ==
    {<<Config(st), Document(t \o <<A_URL, TIME_PUBLISHED>> \o o \o s)>> :
        st \in {"unofficial", "base"}, t \in {<<>>, <<NAV_TOC>>}, o \in OrcidVariants,
        s \in SeqsUpTo(ScanPool, MaxElems)}

\* the status: every status, at most one scanned element
StatusInputs ==
    {<<Config(st), Document(t \o <<A_URL, TIME_PUBLISHED>> \o o \o s)>> :
        st \in Statuses, t \in TocVariants, o \in OrcidVariants,
        s \in SeqsUpTo(ScanPool, 1)}

\* the people lists
PeopleInputs ==
    {<<WithField(c, "specStatus", "ED"), Document(<<NAV_TOC, A_URL, TIME_PUBLISHED>>)>> :
        c \in PeopleConfigs}

\* documents that lack a.u-url, time.dt-published or both
UnrenderedInputs ==
    {<<Config(st), Document(t \o r \o o \o s)>> :
        st \in {"unofficial", "ED"}, t \in TocVariants,
        r \in {<<>>, <<A_URL>>, <<TIME_PUBLISHED>>}, o \in OrcidVariants,
        s \in SeqsUpTo(ScanPool, 1)}

Inputs == ScanInputs \cup StatusInputs \cup PeopleInputs \cup UnrenderedInputs

(***************************************************************************)
(* The state machine: the document is rendered, then create_manifest is    *)
(* invoked on it.                                                          *)
(***************************************************************************)
Init ==
    /\ \E in \in Inputs : config = in[1] /\ document = in[2]
    /\ docBefore = document
    /\ manifest = <<>>
    /\ accumulated = <<>>
    /\ scanned = <<>>
    /\ outcome = "none"
    /\ runs = 0

\* create_manifest that appends the link before it reads the required elements
create_manifest_link_first ==
    /\ runs < MaxRuns
    /\ runs' = runs + 1
    /\ docBefore' = document
    /\ UNCHANGED config
    /\ LET doc == MarkToc(document)
       IN IF Throws(doc)
          THEN /\ document' = [doc EXCEPT !.head = Append(@,
                                  [tag |-> "link", rel |-> "publication",
                                   href |-> "#" \o MANIFEST_ID])]
               /\ outcome' = "aborted"
               /\ UNCHANGED <<manifest, accumulated, scanned>>
          ELSE LET scan      == Scan(doc)
                   resources == Accumulate(config, doc, scan)
                   m         == BuildManifest(config, doc, resources)
               IN /\ document' = AppendManifest(doc, m)
                  /\ manifest' = <<m>>
                  /\ accumulated' = resources
                  /\ scanned' = scan
                  /\ outcome' = "completed"

\* create_manifest(config), lines 6-329
create_manifest ==
    /\ runs < MaxRuns
    /\ runs' = runs + 1
    /\ docBefore' = document
    /\ UNCHANGED config
    /\ LET doc == MarkToc(document)
       IN IF Throws(doc)
          THEN /\ document' = doc
               /\ outcome' = "aborted"
               /\ UNCHANGED <<manifest, accumulated, scanned>>
          ELSE LET scan      == Scan(doc)
                   resources == Accumulate(config, doc, scan)
                   m         == BuildManifest(config, doc, resources)
               IN /\ document' = AppendManifest(doc, m)
                  /\ manifest' = <<m>>
                  /\ accumulated' = resources
                  /\ scanned' = scan
                  /\ outcome' = "completed"

Next == create_manifest

Spec == Init /\ [][Next]_vars

TypeOK ==
    /\ outcome \in {"none", "completed", "aborted"}
    /\ runs \in 0..MaxRuns
    /\ outcome = "none" <=> runs = 0

(***************************************************************************)
(* Properties.                                                             *)
(***************************************************************************)
Completed == outcome = "completed"

\* the serialized manifest the last completed invocation put in the head
Serialized == document.head[Len(document.head)].text

NoDuplicateUrl(list) ==
    \A i, j \in 1..Len(list) : i # j => list[i].url # list[j].url

\* C1: whenever create_manifest completes, the resources list of the
\* serialized manifest holds no two entries with the same url.
C1_NoDuplicateUrls == Completed => NoDuplicateUrl(Serialized.resources)

\* C1 witness: the ORCID logo is a fixed resource and two scanned elements
\* repeat its url, and the invocation completed.
C1_Witness ==
    /\ Completed
    /\ \E i \in 1..Len(accumulated) : accumulated[i] = ORCID_LOGO
    /\ \E i, j \in 1..Len(scanned) :
          /\ i < j
          /\ scanned[i].pushed # <<>> /\ scanned[j].pushed # <<>>
          /\ scanned[i].pushed[1].url = ORCID_LOGO.url
          /\ scanned[j].pushed[1].url = ORCID_LOGO.url

\* the indices of the entries whose url no earlier entry has
FirstSeen(list) ==
    {i \in 1..Len(list) : \A j \in 1..(i - 1) : list[j].url # list[i].url}

TagRank == [object |-> 1, img |-> 2, a |-> 3, script |-> 4]

\* C2: the final resources are the accumulated list (the baseline logo, the
\* base stylesheet, the status resources, the ORCID logo, then the entries
\* of object, img, a and script elements in that order) without the entries
\* whose url an earlier entry has; what stays is unchanged and in order.
C2_FirstSeenOrder ==
    Completed =>
        LET final  == manifest[1].resources
            K      == FirstSeen(accumulated)
            pushes == Flatten([i \in 1..Len(scanned) |-> scanned[i].pushed])
            fixed  == Len(accumulated) - Len(pushes)
        IN /\ Len(final) = Cardinality(K)
           /\ \A i \in K : final[Cardinality({k \in K : k <= i})] = accumulated[i]
           /\ Serialized.resources = final
           /\ accumulated[1] = W3C_LOGO /\ accumulated[2] = BASE_CSS
           /\ fixed >= 2
           /\ \A i \in 1..Len(pushes) : accumulated[fixed + i] = pushes[i]
           /\ \A i \in 3..fixed :
                 \/ accumulated[i] = ORCID_LOGO /\ i = fixed
                 \/ startsWith(accumulated[i].url, "https://www.w3.org/StyleSheets/TR/2016/")
           /\ \A i, j \in 1..Len(scanned) :
                 i < j => TagRank[scanned[i].element.tag] <= TagRank[scanned[j].element.tag]

\* C2 witness: two accumulated entries share a url and differ otherwise.
C2_Witness ==
    /\ Completed
    /\ \E i, j \in 1..Len(accumulated) :
          /\ i < j
          /\ accumulated[i].url = accumulated[j].url
          /\ accumulated[i] # accumulated[j]

\* the attribute that carries the reference of a scanned element
RefAttr == [object |-> "data", img |-> "src", a |-> "href", script |-> "src"]

\* the scanned elements the claims speak of: object, img, a, and the script
\* elements whose class is not "remove"
Considered(element) ==
    element.tag = "script" => getAttribute(element, "class") # "remove"

\* a fragment reference, an absolute http(s) URL or a mailto: URI
Excluded(ref) ==
    \/ Len(ref) >= 1 /\ SubSeq(ref, 1, 1) = "#"
    \/ Len(ref) >= 7 /\ SubSeq(ref, 1, 7) = "http://"
    \/ Len(ref) >= 8 /\ SubSeq(ref, 1, 8) = "https://"
    \/ Len(ref) >= 7 /\ SubSeq(ref, 1, 7) = "mailto:"

\* C3: a considered element with a non-empty reference attribute adds a
\* LinkedResource whose url is the raw attribute value iff the value is no
\* fragment reference, no http:// or https:// URL and no mailto: URI.
C3_RelativeReferences ==
    Completed =>
        \A k \in 1..Len(scanned) :
            LET e   == scanned[k].element
                ref == getAttribute(e, RefAttr[e.tag])
            IN (Considered(e) /\ ref # Null /\ ref # "") =>
                  IF Excluded(ref)
                  THEN scanned[k].pushed = <<>>
                  ELSE /\ Len(scanned[k].pushed) = 1
                       /\ scanned[k].pushed[1].type = "LinkedResource"
                       /\ scanned[k].pushed[1].url = ref
                       /\ \E i \in 1..Len(Serialized.resources) :
                             Serialized.resources[i].url = ref

\* C3 witness: a completed scan met a mailto: reference that added nothing
\* and a relative reference that added an entry.
C3_Witness ==
    /\ Completed
    /\ \E i, j \in 1..Len(scanned) :
          /\ scanned[i].element.tag = "a"
          /\ startsWith(getAttribute(scanned[i].element, "href"), "mailto:")
          /\ scanned[i].pushed = <<>>
          /\ scanned[j].pushed # <<>>

\* the encodingFormat of a pushed entry, Undefined when it has none
EncodingFormat(pushed) == Get(pushed[1], "encodingFormat")

\* C4: a considered script element with a relative src that does not end in
\* ".js" and a type attribute gets an entry whose encodingFormat is the type
\* attribute; a relative src ending in ".js" gets the fixed script MIME type.
C4_ScriptEncodingFormat ==
    Completed =>
        \A k \in 1..Len(scanned) :
            LET e    == scanned[k].element
                type == getAttribute(e, "type")
            IN (e.tag = "script" /\ Considered(e) /\ scanned[k].pushed # <<>>) =>
                  IF endsWith(scanned[k].pushed[1].url, ".js")
                  THEN EncodingFormat(scanned[k].pushed) = "application/Javascript"
                  ELSE (type # Null /\ type # "") =>
                           EncodingFormat(scanned[k].pushed) = type

\* file extension |-> MIME type
SniffTable == {<<".gif", "image/gif">>, <<".png", "image/png">>,
               <<".bmp", "image/bmp">>, <<".jpg", "image/jpeg">>,
               <<".jpeg", "image/jpeg">>, <<".svg", "image/svg+xml">>,
               <<".pdf", "application/pdf">>}

\* the MIME types the extension of ref stands for (none or one)
Sniffs(ref) == {p[2] : p \in {q \in SniffTable : endsWith(ref, q[1])}}

SniffedOrOmitted(pushed) ==
    IF Sniffs(pushed[1].url) = {}
    THEN "encodingFormat" \notin DOMAIN pushed[1]
    ELSE EncodingFormat(pushed) \in Sniffs(pushed[1].url)

\* C5 as claimed: the entry of an object, img or a element with a relative
\* reference has the element's type attribute as encodingFormat when the
\* attribute is present, else the MIME type of the extension, else none.
C5_TypeAttributeFirst ==
    Completed =>
        \A k \in 1..Len(scanned) :
            LET e    == scanned[k].element
                type == getAttribute(e, "type")
            IN (e.tag \in {"object", "img", "a"} /\ scanned[k].pushed # <<>>) =>
                  IF type # Null /\ type # ""
                  THEN EncodingFormat(scanned[k].pushed) = type
                  ELSE SniffedOrOmitted(scanned[k].pushed)

\* C5 as amended: the entry of an object or a element has the element's
\* non-empty type attribute as encodingFormat, else the MIME type of the
\* extension, else none; the entry of an img element has the MIME type of
\* the extension or none, whatever type attribute the element carries.
C5_EncodingFormat ==
    Completed =>
        \A k \in 1..Len(scanned) :
            LET e    == scanned[k].element
                type == getAttribute(e, "type")
            IN (e.tag \in {"object", "img", "a"} /\ scanned[k].pushed # <<>>) =>
                  IF e.tag # "img" /\ type # Null /\ type # ""
                  THEN EncodingFormat(scanned[k].pushed) = type
                  ELSE SniffedOrOmitted(scanned[k].pushed)

\* C5 witness: an img with a type attribute and an a whose type attribute
\* differs from what its extension stands for both got an entry.
C5_Witness ==
    /\ Completed
    /\ \E i, j \in 1..Len(scanned) :
          /\ scanned[i].element.tag = "img"
          /\ getAttribute(scanned[i].element, "type") # Null
          /\ scanned[i].pushed # <<>>
          /\ scanned[j].element.tag = "a"
          /\ scanned[j].pushed # <<>>
          /\ getAttribute(scanned[j].element, "type") # Null
          /\ Sniffs(scanned[j].pushed[1].url) # {}

\* the document has an element of this tag with this class
HasElement(doc, tag, class) ==
    \E i \in 1..Len(doc.body) :
        /\ doc.body[i].tag = tag
        /\ class \in ClassTokens(getAttribute(doc.body[i], "class"))

Unrendered(doc) ==
    ~HasElement(doc, "a", "u-url") \/ ~HasElement(doc, "time", "dt-published")

IsToc(element) == element.tag = "nav" /\ getAttribute(element, "id") = "toc"

\* the body is the body of before, but for role="doc-toc" on nav#toc
BodyKeptButToc(before, after) ==
    /\ Len(after.body) = Len(before.body)
    /\ \A i \in 1..Len(before.body) :
          \/ after.body[i] = before.body[i]
          \/ /\ IsToc(before.body[i])
             /\ DOMAIN after.body[i] = DOMAIN before.body[i] \cup {"role"}
             /\ after.body[i].role = "doc-toc"
             /\ \A n \in DOMAIN before.body[i] \ {"role"} :
                   after.body[i][n] = before.body[i][n]

\* C6 as claimed: without a.u-url or time.dt-published the invocation aborts
\* and the document is as it was before.
C6_AbortLeavesDocument ==
    (runs > 0 /\ Unrendered(docBefore)) =>
        outcome = "aborted" /\ document = docBefore

\* C6 as amended: without a.u-url or time.dt-published the invocation aborts
\* with nothing appended to head and no element changed, but for
\* role="doc-toc" on nav#toc, which is set before the elements are read.
C6_AbortLeavesHead ==
    (runs > 0 /\ Unrendered(docBefore)) =>
        /\ outcome = "aborted"
        /\ document.head = docBefore.head
        /\ BodyKeptButToc(docBefore, document)
        /\ \A i \in 1..Len(document.body) :
              IsToc(document.body[i]) => document.body[i].role = "doc-toc"

\* C6 witness: an invocation aborted on a document with a nav#toc.
C6_Witness ==
    /\ outcome = "aborted"
    /\ Unrendered(docBefore)
    /\ \E i \in 1..Len(docBefore.body) : IsToc(docBefore.body[i])
    /\ document # docBefore

TR2016 == "https://www.w3.org/StyleSheets/TR/2016/"

\* the number of different urls among the entries the ORCID marker and the
\* scan pushed
OrcidAndScanUrls ==
    LET pushes == Flatten([i \in 1..Len(scanned) |-> scanned[i].pushed])
    IN Cardinality({pushes[i].url : i \in 1..Len(pushes)}
                   \cup (IF HasElement(docBefore, "span", "orcid")
                         THEN {"images/orcid.gif"} ELSE {}))

\* C7: under a specStatus that is "unofficial" in any letter case the
\* manifest has, beyond the two baseline resources and those of the ORCID
\* marker and the scan, exactly three resources: the W3C-UD stylesheet, the
\* logos/UD.png logo (image/png) and the logos/UD-watermark.png watermark,
\* the same three whatever the case.
C7_UnofficialResources ==
    (Completed /\ toLowerCase(config.specStatus) = "unofficial") =>
        LET r == Serialized.resources
        IN /\ Len(r) = 2 + 3 + OrcidAndScanUrls
           /\ r[1] = W3C_LOGO /\ r[2] = BASE_CSS
           /\ r[3] = [type |-> "LinkedResource", url |-> TR2016 \o "W3C-UD",
                      rel |-> "stylesheet", encodingFormat |-> "text/css",
                      description |->
                          "CSS file depending on the status of the document"]
           /\ r[4] = [type |-> "LinkedResource", url |-> TR2016 \o "logos/UD.png",
                      encodingFormat |-> "image/png",
                      description |->
                          "Sidebar logo reflecting the status of the document"]
           /\ r[5] = [type |-> "LinkedResource",
                      url |-> TR2016 \o "logos/UD-watermark.png",
                      encodingFormat |-> "image/png",
                      description |->
                          "Background watermark reflecting the status of the document"]
           /\ \A i \in 6..Len(r) : ~startsWith(r[i].url, TR2016)

\* C7 witness: a completed invocation under the status "Unofficial" on a
\* document with the ORCID marker and a scanned relative reference.
C7_Witness ==
    /\ Completed
    /\ config.specStatus = "Unofficial"
    /\ HasElement(docBefore, "span", "orcid")
    /\ \E k \in 1..Len(scanned) : scanned[k].pushed # <<>>

\* what the manifest is to hold for one configured person
PersonOK(entry, person) ==
    /\ DOMAIN entry = {"type", "affiliation"}
                      \cup (IF "name" \in DOMAIN person THEN {"name"} ELSE {})
                      \cup (IF "url" \in DOMAIN person THEN {"id"} ELSE {})
    /\ entry.type = "Person"
    /\ Get(entry, "name") = Get(person, "name")
    /\ Get(entry, "id") = Get(person, "url")
    /\ DOMAIN entry.affiliation =
           {"type"} \cup (IF "company" \in DOMAIN person THEN {"name"} ELSE {})
                    \cup (IF "companyURL" \in DOMAIN person THEN {"url"} ELSE {})
    /\ entry.affiliation.type = "Organization"
    /\ Get(entry.affiliation, "name") = Get(person, "company")
    /\ Get(entry.affiliation, "url") = Get(person, "companyURL")

C9_Frame ==
    Completed =>
        /\ BodyKeptButToc(docBefore, document)
        /\ \A i \in 1..Len(document.body) :
              IsToc(document.body[i]) => document.body[i].role = "doc-toc"
        /\ Len(document.head) = Len(docBefore.head) + 2
        /\ SubSeq(document.head, 1, Len(docBefore.head)) = docBefore.head
        /\ document.head[Len(docBefore.head) + 1] =
               [tag |-> "link", rel |-> "publication", href |-> "#pub_manifest"]
        /\ document.head[Len(docBefore.head) + 2] =
               [tag |-> "script", type |-> "application/ld+json",
                id |-> "pub_manifest", text |-> stringify(manifest[1])]

\* C9 witness: a completed invocation on a document whose nav#toc carried
\* another role.
C9_Witness ==
    /\ Completed
    /\ \E i \in 1..Len(docBefore.body) :
          IsToc(docBefore.body[i]) /\ getAttribute(docBefore.body[i], "role") = "navigation"

\* the texts of the manifest scripts in the head, oldest first
ManifestTexts ==
    LET scripts == SelectSeq(document.head,
                       LAMBDA e : e.tag = "script" /\ getAttribute(e, "id") = MANIFEST_ID)
    IN [i \in 1..Len(scripts) |-> scripts[i].text]

\* C10: every later invocation on the document the earlier ones left
\* computes the manifest the first one computed: the inserted link and script
\* elements and the role on nav#toc contribute nothing.
C10_SameManifestAgain ==
    Completed =>
        /\ Len(ManifestTexts) = runs
        /\ \A i \in 1..Len(ManifestTexts) : ManifestTexts[i] = ManifestTexts[1]
        /\ stringify(manifest[1]) = ManifestTexts[1]

\* C10 witness: a second invocation completed, having visited the script and
\* the marked nav#toc the first one left, on a document with scanned scripts.
C10_Witness ==
    /\ Completed
    /\ runs >= 2
    /\ \E k \in 1..Len(scanned) : getAttribute(scanned[k].element, "id") = MANIFEST_ID
    /\ \E k \in 1..Len(scanned) :
          scanned[k].element.tag = "script" /\ scanned[k].pushed # <<>>
    /\ \E i \in 1..Len(docBefore.body) :
          IsToc(docBefore.body[i]) /\ getAttribute(docBefore.body[i], "role") = "doc-toc"

====
